---- MODULE Spec2Model ----
(***************************************************************************)
(* A model of the Financial Services Register API client                   *)
(* (src/src/financial_services_register_api/api.py).                       *)
(*                                                                         *)
(* Text that the client composes (URLs, query strings, exception           *)
(* messages, names, identifiers) is a sequence of tokens: a token is       *)
(* either one of the characters that matter to URL building ("/", "?",     *)
(* "&", "=", " ", "+") or a run of other characters.  Concatenation is     *)
(* \o.  Opaque values that are only compared (resource types, reason       *)
(* phrases, JSON field values) are plain strings.                          *)
(*                                                                         *)
(* A client call blocks in api_session.get(url): the call actions run a    *)
(* handler up to the GET, and the *_returns actions run the rest of the    *)
(* handler when the GET returns a response or raises.                      *)
(***************************************************************************)
EXTENDS Integers, Sequences, FiniteSets, TLC

VARIABLES
    api_session,   \* the client's FinancialServicesRegisterApiSession
    call,          \* the client operation in progress or last finished
    sent,          \* the requests issued through the session by that call
    reply,         \* what api_session.get produced for that call
    outcome,       \* how the call ended: pending, returned or raised
    API_CONSTANTS, \* the module's FINANCIAL_SERVICES_REGISTER_API_CONSTANTS
    read           \* the last property read of a response wrapper, and its value

vars == <<api_session, call, sent, reply, outcome, API_CONSTANTS, read>>

----------------------------------------------------------------------------
(* Bounds *)

\* the longest Data payload the server answers with
MaxRecords == 2

----------------------------------------------------------------------------
(* Static configuration: constants.py, as pinned by tests/units/test_constants.py *)

API_VERSION == <<"V0.1">>

BASEURL == <<"https:", "/", "/", "register.fca.org.uk", "/", "services", "/">> \o API_VERSION

\* the value of API_CONSTANTS.DEVELOPER_PORTAL, whatever it is
DEVELOPER_PORTAL == <<"{API_CONSTANTS.DEVELOPER_PORTAL.value}">>

\* mutant: the type names capitalised
RESOURCE_TYPES_capitalised ==
    [ firm       |-> [type_name |-> "Firm",       endpoint_base |-> "Firm"],
      fund       |-> [type_name |-> "Fund",       endpoint_base |-> "CIS"],
      individual |-> [type_name |-> "Individual", endpoint_base |-> "Individuals"] ]

\* mutant: funds served under their own name
RESOURCE_TYPES_fund_endpoint ==
    [ firm       |-> [type_name |-> "firm",       endpoint_base |-> "Firm"],
      fund       |-> [type_name |-> "fund",       endpoint_base |-> "Fund"],
      individual |-> [type_name |-> "individual", endpoint_base |-> "Individuals"] ]

RESOURCE_TYPES ==
    [ firm       |-> [type_name |-> "firm",       endpoint_base |-> "Firm"],
      fund       |-> [type_name |-> "fund",       endpoint_base |-> "CIS"],
      individual |-> [type_name |-> "individual", endpoint_base |-> "Individuals"] ]

\* the members of the enumeration, as imported by api.py
FINANCIAL_SERVICES_REGISTER_API_CONSTANTS ==
    [ API_VERSION      |-> API_VERSION,
      BASEURL          |-> BASEURL,
      DEVELOPER_PORTAL |-> DEVELOPER_PORTAL,
      RESOURCE_TYPES   |-> RESOURCE_TYPES ]

----------------------------------------------------------------------------
(* The inputs of the calls *)

\* <<api_username, api_key>> pairs given to the constructor
Credentials == { <<"user@example.com", "key-1">>, <<"other@example.com", "key-2">> }

\* names searched for; the second and the third need URL encoding
ResourceNames == { <<"hastings">>, <<"direct", " ", "line">>, <<"marks", "&", "spencer">> }

\* resource types a caller may pass: the three of RESOURCE_TYPES and two others
ResourceTypeArgs == DOMAIN RESOURCE_TYPES \cup {"Firm", "company"}

\* reference numbers passed to the accessors
RefNumbers == { <<"122702">> }

\* the second argument of the two accessors that take one
ExtraArgs == { <<"Gibraltar">>, <<"United", " ", "Kingdom">> }

\* modifier tuples passed to _get_resource_info directly; <<>> is None or ()
ModifierArgs ==
    { <<>>,
      << <<"Names">> >>,
      << <<"/", "Names", "/">> >>,
      << <<"Passports">>, <<"Gibraltar">>, <<"Permission">> >> }

----------------------------------------------------------------------------
(* What the register answers *)

RefField == "Reference Number"

\* JSON values: null (None once parsed), an array of records, a string
JsonNull == [null |-> TRUE, items |-> <<>>]
JsonArray(items) == [null |-> FALSE, items |-> items]
JsonString(s) == [null |-> FALSE, str |-> s]

\* the records of a Data payload: JSON objects, i.e. functions from field names
\* to JSON values; the register may leave a field out or answer null for it
Records ==
    { (RefField :> JsonString("202684")) @@ ("Name" :> JsonString("Direct Line Insurance plc")),
      (RefField :> JsonNull) @@ ("Name" :> JsonString("Hastings Direct")),
      ("Name" :> JsonString("Direct Line Group")) }

RECURSIVE SeqsUpTo(_, _)
SeqsUpTo(S, n) ==
    IF n = 0 THEN { <<>> }
    ELSE LET shorter == SeqsUpTo(S, n - 1)
         IN  shorter \cup { Append(s, x) : s \in shorter, x \in S }

\* a JSON value of the envelope's Data field: null or an array of records
DataValues == {JsonNull} \cup { JsonArray(l) : l \in SeqsUpTo(Records, MaxRecords) }

\* the envelope: a JSON object with the four conventional fields, Data possibly absent
EnvelopeHead ==
    ("Status" :> JsonString("FSR-API-04-01-00"))
        @@ ("Message" :> JsonString("Ok. Search successful"))
        @@ ("ResultInfo" :> JsonString("page 1"))
Envelopes == {EnvelopeHead} \cup { EnvelopeHead @@ ("Data" :> d) : d \in DataValues }

\* a response body: JSON text of an envelope, or text that is not JSON
NotJson == [is_json |-> FALSE, obj |-> EnvelopeHead]
Bodies == {NotJson} \cup { [is_json |-> TRUE, obj |-> e] : e \in Envelopes }

\* 300 is answered as it is: the session follows 301, 302, 303, 307 and 308 only
StatusCodes == {200, 300, 404}

Reason(status_code) ==
    CASE status_code = 200 -> "OK"
      [] status_code = 300 -> "Multiple Choices"
      [] status_code = 404 -> "Not Found"
      [] OTHER -> "Unknown"

\* the subclasses of requests.RequestException a GET may raise
TransportErrors == {"ConnectionError", "Timeout"}

NoReply == [exc |-> "", status_code |-> 0, reason |-> "", body |-> NotJson]

\* what api_session.get(url) produces: a raw response, or a transport exception
Replies ==
    { [exc |-> "", status_code |-> s, reason |-> Reason(s), body |-> b] :
        s \in StatusCodes, b \in Bodies }
    \cup { [NoReply EXCEPT !.exc = e] : e \in TransportErrors }

\* JSON objects with the field key holding one of values, or without it
OptionalField(key, values) == { [k \in {} |-> JsonNull] } \cup { key :> v : v \in values }

\* the raw responses a wrapper is built from directly: any of the four
\* conventional fields may be absent
RawEnvelopes ==
    { s @@ m @@ i @@ d :
        s \in OptionalField("Status", { JsonString("FSR-API-04-01-00"),
                                        JsonString("FSR-API-04-01-11") }),
        m \in OptionalField("Message", { JsonString("Ok. Search successful"),
                                         JsonString("FSR-API-04-01-11") }),
        i \in OptionalField("ResultInfo", { JsonString("page 1") }),
        d \in OptionalField("Data", { JsonNull, JsonArray(<<>>),
                                      JsonArray(<<("Name" :> JsonString("Direct Line Group"))>>) }) }

RawResponses ==
    { [exc |-> "", status_code |-> s, reason |-> Reason(s), body |-> b] :
        s \in StatusCodes,
        b \in {NotJson} \cup { [is_json |-> TRUE, obj |-> e] : e \in RawEnvelopes } }

----------------------------------------------------------------------------
(* FinancialServicesRegisterApiSession *)

FinancialServicesRegisterApiSession(api_username, api_key) ==
    [ _api_username |-> api_username,
      _api_key      |-> api_key,
      headers       |-> ("ACCEPT" :> "application/json")
                           @@ ("X-AUTH-EMAIL" :> api_username)
                           @@ ("X-AUTH-KEY" :> api_key) ]

\* mutant: the GET made with requests.get(url), outside the session
Request_outside_session(session, url) ==
    [method |-> "GET", url |-> url, headers |-> [k \in {} |-> ""]]

\* the request a GET through the session puts on the wire
Request(session, url) == [method |-> "GET", url |-> url, headers |-> session.headers]

----------------------------------------------------------------------------
(* FinancialServicesRegisterApiResponse *)

\* mutant: the wrapper built afresh, with the status code and the body only
FinancialServicesRegisterApiResponse_fresh(response) ==
    [ status_code |-> response.status_code,
      reason      |-> "",
      body        |-> response.body ]

\* the wrapper takes over every attribute of the raw response
FinancialServicesRegisterApiResponse(response) ==
    [ status_code |-> response.status_code,
      reason      |-> response.reason,
      body        |-> response.body ]

NoResponse == FinancialServicesRegisterApiResponse(NoReply)

\* requests.Response.ok: raise_for_status() raises for 400 <= status_code < 600 only
ok(res) == ~(400 <= res.status_code /\ res.status_code < 600)

\* res.json() succeeds only on a JSON body
json_fails(res) == ~res.body.is_json

\* mutant: an absent field reads as the empty string
json_get_default(res, key) ==
    IF key \in DOMAIN res.body.obj THEN res.body.obj[key] ELSE JsonString("")

\* res.json().get(key): None when the field is absent
json_get(res, key) == IF key \in DOMAIN res.body.obj THEN res.body.obj[key] ELSE JsonNull

\* mutant: the status read from the message field
status_reads_message(res) == json_get(res, "Message")

status(res) == json_get(res, "Status")

resultinfo(res) == json_get(res, "ResultInfo")

message(res) == json_get(res, "Message")

\* res.data == res.json().get('Data'): None when the field is absent
data(res) ==
    IF "Data" \in DOMAIN res.body.obj THEN res.body.obj["Data"] ELSE JsonNull

\* mutant: the payload tested with "is not None"
truthy_not_none(d) == ~d.null

\* Python truth value of a payload: None and the empty list are falsy
truthy(d) == ~d.null /\ Len(d.items) > 0

----------------------------------------------------------------------------
(* How a call ends *)

NoExc == [type |-> "", cause |-> "", msg |-> <<>>]

Pending ==
    [kind |-> "pending", value_type |-> "", str |-> "", list |-> <<>>,
     response |-> NoResponse, exc |-> NoExc]

NotCalled == [Pending EXCEPT !.kind = "none"]

ReturnStr(s) == [Pending EXCEPT !.kind = "returned", !.value_type = "str", !.str = s]

ReturnList(l) == [Pending EXCEPT !.kind = "returned", !.value_type = "list", !.list = l]

ReturnResponse(res) ==
    [Pending EXCEPT !.kind = "returned", !.value_type = "response", !.response = res]

\* falling off the end of a Python function returns None
ReturnNone == [Pending EXCEPT !.kind = "returned", !.value_type = "None"]

\* return of a value parsed from JSON: a str, or None for null
ReturnValue(v) == IF v.null THEN ReturnNone ELSE ReturnStr(v.str)

Raise(type, cause, msg) ==
    [Pending EXCEPT !.kind = "raised", !.exc = [type |-> type, cause |-> cause, msg |-> msg]]

----------------------------------------------------------------------------
(* URL building *)

\* urllib.parse.quote_plus on one token
QuotePlusToken(t) ==
    CASE t = " " -> "+"
      [] t = "/" -> "%2F"
      [] t = "?" -> "%3F"
      [] t = "&" -> "%26"
      [] t = "=" -> "%3D"
      [] t = "+" -> "%2B"
      [] OTHER   -> t

quote_plus(s) == [i \in 1..Len(s) |-> QuotePlusToken(s[i])]

\* urllib.parse.urlencode of a sequence of <<key, value>> pairs
RECURSIVE urlencode(_)
urlencode(pairs) ==
    IF pairs = <<>> THEN <<>>
    ELSE LET kv == quote_plus(pairs[1][1]) \o <<"=">> \o quote_plus(pairs[1][2])
         IN  IF Len(pairs) = 1 THEN kv
             ELSE kv \o <<"&">> \o urlencode(Tail(pairs))

\* sep.join(strs)
RECURSIVE join(_, _)
join(sep, strs) ==
    IF strs = <<>> THEN <<>>
    ELSE IF Len(strs) = 1 THEN strs[1]
    ELSE strs[1] \o sep \o join(sep, Tail(strs))

\* mutant: the query string formatted without urlencode
common_search_url_unquoted(resource_name, resource_type) ==
    API_CONSTANTS.BASEURL \o <<"/", "Search", "?">>
        \o <<"q", "=">> \o resource_name \o <<"&", "type", "=">> \o <<resource_type>>

common_search_url(resource_name, resource_type) ==
    API_CONSTANTS.BASEURL \o <<"/", "Search", "?">>
        \o urlencode(<< <<<<"q">>, resource_name>>, <<<<"type">>, <<resource_type>>>> >>)

\* mutant: the modifiers are appended even when there are none
resource_info_url_trailing_slash(resource_ref_number, resource_type, modifiers) ==
    API_CONSTANTS.BASEURL \o <<"/">> \o <<API_CONSTANTS.RESOURCE_TYPES[resource_type].endpoint_base>> \o <<"/">>
        \o resource_ref_number \o <<"/">> \o join(<<"/">>, modifiers)

resource_info_url(resource_ref_number, resource_type, modifiers) ==
    LET resource_endpoint_base == API_CONSTANTS.RESOURCE_TYPES[resource_type].endpoint_base
        url == API_CONSTANTS.BASEURL \o <<"/">> \o <<resource_endpoint_base>> \o <<"/">>
                   \o resource_ref_number
    IN  IF modifiers # <<>> THEN url \o <<"/">> \o join(<<"/">>, modifiers) ELSE url

regulated_markets_url ==
    API_CONSTANTS.BASEURL \o <<"/">> \o <<"CommonSearch">> \o <<"?">>
        \o urlencode(<< <<<<"q">>, <<"RM">>>> >>)

----------------------------------------------------------------------------
(* The handlers, from the return of api_session.get(url) on.  r is what the *)
(* GET produced: a raw response, or a requests.RequestException.            *)

RequestException == "FinancialServicesRegisterApiRequestException"
ResponseException == "FinancialServicesRegisterApiResponseException"

ResourceTypeError ==
    Raise("ValueError", "",
          <<"Resource type must be one of the strings \"firm\", \"fund\", or \"individual\"">>)

\* mutant: no try/except around the GET
common_search_result_unwrapped(r) ==
    IF r.exc # ""
    THEN Raise(r.exc, "", <<r.exc>>)
    ELSE ReturnResponse(FinancialServicesRegisterApiResponse(r))

\* common_search: wrap the response, or re-raise a transport exception wrapped
common_search_result(r) ==
    IF r.exc # ""
    THEN Raise(RequestException, r.exc, <<r.exc>>)
    ELSE ReturnResponse(FinancialServicesRegisterApiResponse(r))

\* mutant: the record is returned instead of its reference number
unique_ref_number_record(resource_name, resource_type, record) ==
    IF RefField \in DOMAIN record
    THEN ReturnList(<<record>>)
    ELSE Raise(ResponseException, "", <<>>)

\* mutant: the KeyError is not caught
unique_ref_number_keyerror(resource_name, resource_type, record) ==
    IF RefField \in DOMAIN record
    THEN ReturnValue(record[RefField])
    ELSE Raise("KeyError", "", <<RefField>>)

\* mutant: a single record counts as the match of one-word names only
unique_ref_number_scored(resource_name, resource_type, record) ==
    IF Len(resource_name) > 1
    THEN Raise(RequestException, "", <<"No data found in the API response.">>)
    ELSE IF RefField \in DOMAIN record
    THEN ReturnValue(record[RefField])
    ELSE Raise(ResponseException, "", <<>>)

\* the single-record branch of _search_ref_number
unique_ref_number(resource_name, resource_type, record) ==
    IF RefField \in DOMAIN record
    THEN ReturnValue(record[RefField])
    ELSE Raise(ResponseException, "",
               <<"Unexpected response data structure from the API for ", resource_type,
                 " search by name \"">> \o resource_name
               \o <<"\"! Please check the API developer documentation at ">>
               \o API_CONSTANTS.DEVELOPER_PORTAL \o <<".">>)

search_failed(res) ==
    Raise(RequestException, "",
          <<"API search request failed for an unknown reason: ", res.reason,
            ". Please check the search parameters and try again.">>)

no_data_found ==
    Raise(RequestException, "",
          <<"No data found in the API response. Please check the search parameters and try again.">>)

\* mutant: the payload is looked at whatever the status ("if res.data:")
search_ref_number_result_ignores_ok(resource_name, resource_type, r) ==
    LET searched == common_search_result(r)
        res == searched.response
    IN  IF searched.kind = "raised" THEN searched
        ELSE IF json_fails(res) THEN Raise("JSONDecodeError", "", <<>>)
        ELSE IF truthy(data(res))
             THEN IF Len(data(res).items) = 1
                  THEN unique_ref_number(resource_name, resource_type, data(res).items[1])
                  ELSE IF Len(data(res).items) > 1
                  THEN ReturnList(data(res).items)
                  ELSE ReturnNone
        ELSE IF ~ok(res) THEN search_failed(res)
        ELSE IF ~truthy(data(res)) THEN no_data_found
        ELSE ReturnNone

\* mutant: of several records only the first is returned
search_ref_number_result_first(resource_name, resource_type, r) ==
    LET searched == common_search_result(r)
        res == searched.response
    IN  IF searched.kind = "raised" THEN searched
        ELSE IF ok(res) /\ json_fails(res) THEN Raise("JSONDecodeError", "", <<>>)
        ELSE IF ok(res) /\ truthy(data(res))
             THEN IF Len(data(res).items) = 1
                  THEN unique_ref_number(resource_name, resource_type, data(res).items[1])
                  ELSE IF Len(data(res).items) > 1
                  THEN ReturnList(<<data(res).items[1]>>)
                  ELSE ReturnNone
        ELSE IF ~ok(res) THEN search_failed(res)
        ELSE IF ~truthy(data(res)) THEN no_data_found
        ELSE ReturnNone

\* mutant: the chain ends after the status check, without "elif not res.data"
search_ref_number_result_no_last_branch(resource_name, resource_type, r) ==
    LET searched == common_search_result(r)
        res == searched.response
    IN  IF searched.kind = "raised" THEN searched
        ELSE IF ok(res) /\ json_fails(res) THEN Raise("JSONDecodeError", "", <<>>)
        ELSE IF ok(res) /\ truthy(data(res))
             THEN IF Len(data(res).items) = 1
                  THEN unique_ref_number(resource_name, resource_type, data(res).items[1])
                  ELSE IF Len(data(res).items) > 1
                  THEN ReturnList(data(res).items)
                  ELSE ReturnNone
        ELSE IF ~ok(res) THEN search_failed(res)
        ELSE ReturnNone

\* mutant: the payload is tested before the status
search_ref_number_result_data_first(resource_name, resource_type, r) ==
    LET searched == common_search_result(r)
        res == searched.response
    IN  IF searched.kind = "raised" THEN searched
        ELSE IF json_fails(res) THEN Raise("JSONDecodeError", "", <<>>)
        ELSE IF ~truthy(data(res)) THEN no_data_found
        ELSE IF ~ok(res) THEN search_failed(res)
        ELSE IF Len(data(res).items) = 1
        THEN unique_ref_number(resource_name, resource_type, data(res).items[1])
        ELSE ReturnList(data(res).items)

\* mutant: the exception of common_search is wrapped once more
search_ref_number_result_rewraps(resource_name, resource_type, r) ==
    LET searched == common_search_result(r)
        res == searched.response
    IN  IF searched.kind = "raised"
        THEN Raise(RequestException, searched.exc.type, searched.exc.msg)
        ELSE IF ok(res) /\ json_fails(res) THEN Raise("JSONDecodeError", "", <<>>)
        ELSE IF ok(res) /\ truthy(data(res))
             THEN IF Len(data(res).items) = 1
                  THEN unique_ref_number(resource_name, resource_type, data(res).items[1])
                  ELSE IF Len(data(res).items) > 1
                  THEN ReturnList(data(res).items)
                  ELSE ReturnNone
        ELSE IF ~ok(res) THEN search_failed(res)
        ELSE IF ~truthy(data(res)) THEN no_data_found
        ELSE ReturnNone

\* _search_ref_number after the type check: the search and the if/elif chain
search_ref_number_result(resource_name, resource_type, r) ==
    LET searched == common_search_result(r)
        res == searched.response
    IN  IF searched.kind = "raised" THEN searched
        ELSE IF ok(res) /\ json_fails(res) THEN Raise("JSONDecodeError", "", <<>>)
        ELSE IF ok(res) /\ truthy(data(res))
             THEN IF Len(data(res).items) = 1
                  THEN unique_ref_number(resource_name, resource_type, data(res).items[1])
                  ELSE IF Len(data(res).items) > 1
                  THEN ReturnList(data(res).items)
                  ELSE ReturnNone
        ELSE IF ~ok(res) THEN search_failed(res)
        ELSE IF ~truthy(data(res)) THEN no_data_found
        ELSE ReturnNone

\* mutant: no try/except around the GET
get_resource_info_result_unwrapped(r) ==
    IF r.exc # ""
    THEN Raise(r.exc, "", <<r.exc>>)
    ELSE ReturnResponse(FinancialServicesRegisterApiResponse(r))

\* mutant: an empty payload is treated as in the reference-number search
get_resource_info_result_no_data(r) ==
    IF r.exc # ""
    THEN Raise(RequestException, r.exc, <<r.exc>>)
    ELSE IF r.body.is_json /\ ~truthy(data(FinancialServicesRegisterApiResponse(r)))
    THEN no_data_found
    ELSE ReturnResponse(FinancialServicesRegisterApiResponse(r))

\* _get_resource_info: wrap the response, or re-raise a transport exception wrapped
get_resource_info_result(r) ==
    IF r.exc # ""
    THEN Raise(RequestException, r.exc, <<r.exc>>)
    ELSE ReturnResponse(FinancialServicesRegisterApiResponse(r))

\* mutant: raise_for_status() called on the response
get_regulated_markets_result_checks_status(r) ==
    IF r.exc # ""
    THEN Raise(r.exc, "", <<r.exc>>)
    ELSE IF ~ok(FinancialServicesRegisterApiResponse(r))
    THEN Raise("HTTPError", "", <<r.reason>>)
    ELSE ReturnResponse(FinancialServicesRegisterApiResponse(r))

\* get_regulated_markets has no try/except around the GET
get_regulated_markets_result(r) ==
    IF r.exc # ""
    THEN Raise(r.exc, "", <<r.exc>>)
    ELSE ReturnResponse(FinancialServicesRegisterApiResponse(r))

----------------------------------------------------------------------------
(* The fixed-path accessors: resource type and modifiers each passes on *)

Accessor(rt, before, takes_arg, after) ==
    [rt |-> rt, before |-> before, takes_arg |-> takes_arg, after |-> after]

Plain(rt) == Accessor(rt, <<>>, FALSE, <<>>)
Sub(rt, segment) == Accessor(rt, << <<segment>> >>, FALSE, <<>>)
SubArg(rt, first, last) == Accessor(rt, << <<first>> >>, TRUE, << <<last>> >>)

Accessors ==
    [ get_firm                              |-> Plain("firm"),
      get_firm_names                        |-> Sub("firm", "Names"),
      get_firm_addresses                    |-> Sub("firm", "Address"),
      get_firm_controlled_functions         |-> Sub("firm", "CF"),
      get_firm_individuals                  |-> Sub("firm", "Individuals"),
      get_firm_permissions                  |-> Sub("firm", "Permissions"),
      get_firm_requirements                 |-> Sub("firm", "Requirements"),
      get_firm_requirement_investment_types |-> SubArg("firm", "Requirements", "InvestmentTypes"),
      get_firm_regulators                   |-> Sub("firm", "Regulators"),
      get_firm_passports                    |-> Sub("firm", "Passports"),
      get_firm_passport_permissions         |-> SubArg("firm", "Passports", "Permission"),
      get_firm_waivers                      |-> Sub("firm", "Waivers"),
      get_firm_exclusions                   |-> Sub("firm", "Exclusions"),
      get_firm_disciplinary_history         |-> Sub("firm", "DisciplinaryHistory"),
      get_firm_appointed_representatives    |-> Sub("firm", "AR"),
      get_individual                        |-> Plain("individual"),
      get_individual_controlled_functions   |-> Sub("individual", "CF"),
      get_individual_disciplinary_history   |-> Sub("individual", "DisciplinaryHistory"),
      get_fund                              |-> Plain("fund"),
      get_fund_names                        |-> Sub("fund", "Names"),
      get_fund_subfunds                     |-> Sub("fund", "Subfund") ]

AccessorModifiers(a, extra) ==
    Accessors[a].before \o (IF Accessors[a].takes_arg THEN <<extra>> ELSE <<>>)
        \o Accessors[a].after

----------------------------------------------------------------------------
(* State *)

Call(op, handler, resource_name, resource_type, resource_ref_number, modifiers) ==
    [ op |-> op, handler |-> handler, resource_name |-> resource_name,
      resource_type |-> resource_type, resource_ref_number |-> resource_ref_number,
      modifiers |-> modifiers, extra |-> <<>> ]

\* mutant: a body that does not parse reads as None
Read_none_on_parse_error(property, res, value) ==
    [property |-> property, kind |-> "returned", exc |-> "",
     value |-> IF json_fails(res) THEN JsonNull ELSE value]

\* a property read: its value, or the exception of res.json()
Read(property, res, value) ==
    IF json_fails(res)
    THEN [property |-> property, kind |-> "raised", exc |-> "JSONDecodeError", value |-> JsonNull]
    ELSE [property |-> property, kind |-> "returned", exc |-> "", value |-> value]

NotRead == [property |-> "", kind |-> "none", exc |-> "", value |-> JsonNull]

NoCall == Call("", "", <<>>, "", <<>>, <<>>)

\* FinancialServicesRegisterApiClient(api_username, api_key)
Init ==
    /\ \E c \in Credentials : api_session = FinancialServicesRegisterApiSession(c[1], c[2])
    /\ call = NoCall
    /\ sent = <<>>
    /\ reply = NoReply
    /\ outcome = NotCalled
    /\ API_CONSTANTS = FINANCIAL_SERVICES_REGISTER_API_CONSTANTS
    /\ read = NotRead

\* the client is synchronous: a call starts when no call is blocked in a GET
Idle == outcome.kind # "pending"

\* mutant: the GET is issued a second time before the handler blocks
Get_twice(c, url) ==
    /\ call' = c
    /\ sent' = <<Request(api_session, url), Request(api_session, url)>>
    /\ reply' = NoReply
    /\ outcome' = Pending
    /\ read' = NotRead
    /\ UNCHANGED <<api_session, API_CONSTANTS>>

\* the handler issues its GET and blocks
Get(c, url) ==
    /\ call' = c
    /\ sent' = <<Request(api_session, url)>>
    /\ reply' = NoReply
    /\ outcome' = Pending
    /\ read' = NotRead
    /\ UNCHANGED <<api_session, API_CONSTANTS>>

\* mutant: a rejected call closes the session, which drops its headers
EndEarly_closes_session(c, out) ==
    /\ call' = c
    /\ sent' = <<>>
    /\ reply' = NoReply
    /\ outcome' = out
    /\ read' = NotRead
    /\ api_session' = [api_session EXCEPT !.headers = [k \in {} |-> ""]]
    /\ UNCHANGED API_CONSTANTS

\* the handler ends before any GET
EndEarly(c, out) ==
    /\ call' = c
    /\ sent' = <<>>
    /\ reply' = NoReply
    /\ outcome' = out
    /\ read' = NotRead
    /\ UNCHANGED <<api_session, API_CONSTANTS>>

----------------------------------------------------------------------------
(* The client operations, up to the GET *)

common_search(resource_name, resource_type) ==
    /\ Idle
    /\ Get(Call("common_search", "common_search", resource_name, resource_type, <<>>, <<>>),
           common_search_url(resource_name, resource_type))

\* mutant: the resource type is not checked before the search
search_ref_number_unchecked(op, resource_name, resource_type) ==
    Get(Call(op, "_search_ref_number", resource_name, resource_type, <<>>, <<>>),
        common_search_url(resource_name, resource_type))

\* _search_ref_number up to the GET: the type check, then the search request
search_ref_number(op, resource_name, resource_type) ==
    LET c == Call(op, "_search_ref_number", resource_name, resource_type, <<>>, <<>>)
    IN  IF resource_type \notin DOMAIN API_CONSTANTS.RESOURCE_TYPES
        THEN EndEarly(c, ResourceTypeError)
        ELSE Get(c, common_search_url(resource_name, resource_type))

\* a direct call of the private method
call_search_ref_number(resource_name, resource_type) ==
    /\ Idle
    /\ search_ref_number("_search_ref_number", resource_name, resource_type)

search_frn(firm_name) ==
    /\ Idle
    /\ search_ref_number("search_frn", firm_name, API_CONSTANTS.RESOURCE_TYPES["firm"].type_name)

search_irn(individual_name) ==
    /\ Idle
    /\ search_ref_number("search_irn", individual_name, API_CONSTANTS.RESOURCE_TYPES["individual"].type_name)

search_prn(fund_name) ==
    /\ Idle
    /\ search_ref_number("search_prn", fund_name, API_CONSTANTS.RESOURCE_TYPES["fund"].type_name)

\* _get_resource_info up to the GET: the type check, then the request
resource_info_request(c) ==
    IF c.resource_type \notin DOMAIN API_CONSTANTS.RESOURCE_TYPES
    THEN EndEarly(c, ResourceTypeError)
    ELSE Get(c, resource_info_url(c.resource_ref_number, c.resource_type, c.modifiers))

get_resource_info(op, resource_ref_number, resource_type, modifiers) ==
    resource_info_request(
        Call(op, "_get_resource_info", <<>>, resource_type, resource_ref_number, modifiers))

\* a direct call of the private method
call_get_resource_info(resource_ref_number, resource_type, modifiers) ==
    /\ Idle
    /\ get_resource_info("_get_resource_info", resource_ref_number, resource_type, modifiers)

\* get_firm, get_firm_names, ..., get_fund_subfunds; extra is the accessor's
\* second argument (req_ref, country), kept in the call when it has one
get_accessor(a, ref_number, extra) ==
    /\ Idle
    /\ resource_info_request(
           [ Call(a, "_get_resource_info", <<>>, API_CONSTANTS.RESOURCE_TYPES[Accessors[a].rt].type_name,
                  ref_number, AccessorModifiers(a, extra))
             EXCEPT !.extra = IF Accessors[a].takes_arg THEN extra ELSE <<>> ])

get_regulated_markets ==
    /\ Idle
    /\ Get(Call("get_regulated_markets", "get_regulated_markets", <<>>, "", <<>>, <<>>),
           regulated_markets_url)

----------------------------------------------------------------------------
(* The client operations, from the return of the GET *)

\* the call blocked in the GET is one of this handler
Blocked(handler) == outcome.kind = "pending" /\ call.handler = handler

\* mutant: a failed GET makes the client open a fresh, unauthenticated session
Returns_fresh_session(r, out) ==
    /\ reply' = r
    /\ outcome' = out
    /\ api_session' = IF r.exc # "" THEN FinancialServicesRegisterApiSession("", "")
                      ELSE api_session
    /\ UNCHANGED <<call, sent, API_CONSTANTS, read>>

Returns(r, out) ==
    /\ reply' = r
    /\ outcome' = out
    /\ UNCHANGED <<api_session, call, sent, API_CONSTANTS, read>>

common_search_returns(r) ==
    /\ Blocked("common_search")
    /\ Returns(r, common_search_result(r))

search_ref_number_returns(r) ==
    /\ Blocked("_search_ref_number")
    /\ Returns(r, search_ref_number_result(call.resource_name, call.resource_type, r))

get_resource_info_returns(r) ==
    /\ Blocked("_get_resource_info")
    /\ Returns(r, get_resource_info_result(r))

get_regulated_markets_returns(r) ==
    /\ Blocked("get_regulated_markets")
    /\ Returns(r, get_regulated_markets_result(r))

Next ==
    \/ \E n \in ResourceNames, t \in ResourceTypeArgs : common_search(n, t)
    \/ \E n \in ResourceNames, t \in ResourceTypeArgs : call_search_ref_number(n, t)
    \/ \E n \in ResourceNames : search_frn(n)
    \/ \E n \in ResourceNames : search_irn(n)
    \/ \E n \in ResourceNames : search_prn(n)
    \/ \E ref \in RefNumbers, t \in ResourceTypeArgs, m \in ModifierArgs :
           call_get_resource_info(ref, t, m)
    \/ \E a \in DOMAIN Accessors, ref \in RefNumbers, x \in ExtraArgs : get_accessor(a, ref, x)
    \/ get_regulated_markets
    \/ \E r \in Replies : common_search_returns(r)
    \/ \E r \in Replies : search_ref_number_returns(r)
    \/ \E r \in Replies : get_resource_info_returns(r)
    \/ \E r \in Replies : get_regulated_markets_returns(r)

Spec == Init /\ [][Next]_vars

----------------------------------------------------------------------------
(* The response wrapper on its own: built from a raw response, then read *)

\* a client and a raw response to wrap
WrapperInit ==
    /\ \E c \in Credentials : api_session = FinancialServicesRegisterApiSession(c[1], c[2])
    /\ call = NoCall
    /\ sent = <<>>
    /\ reply \in RawResponses
    /\ outcome = NotCalled
    /\ API_CONSTANTS = FINANCIAL_SERVICES_REGISTER_API_CONSTANTS
    /\ read = NotRead

Wrapped == outcome.kind = "returned" /\ outcome.value_type = "response"

\* res = FinancialServicesRegisterApiResponse(response)
wrap_response ==
    /\ outcome.kind = "none"
    /\ outcome' = ReturnResponse(FinancialServicesRegisterApiResponse(reply))
    /\ UNCHANGED <<api_session, call, sent, reply, API_CONSTANTS, read>>

read_status ==
    /\ Wrapped
    /\ read' = Read("status", outcome.response, status(outcome.response))
    /\ UNCHANGED <<api_session, call, sent, reply, outcome, API_CONSTANTS>>

read_resultinfo ==
    /\ Wrapped
    /\ read' = Read("resultinfo", outcome.response, resultinfo(outcome.response))
    /\ UNCHANGED <<api_session, call, sent, reply, outcome, API_CONSTANTS>>

read_message ==
    /\ Wrapped
    /\ read' = Read("message", outcome.response, message(outcome.response))
    /\ UNCHANGED <<api_session, call, sent, reply, outcome, API_CONSTANTS>>

read_data ==
    /\ Wrapped
    /\ read' = Read("data", outcome.response, data(outcome.response))
    /\ UNCHANGED <<api_session, call, sent, reply, outcome, API_CONSTANTS>>

WrapperNext ==
    \/ wrap_response
    \/ read_status
    \/ read_resultinfo
    \/ read_message
    \/ read_data

WrapperSpec == WrapperInit /\ [][WrapperNext]_vars

----------------------------------------------------------------------------
(* A caller that searches, by common_search or by search_frn, and reads the *)
(* properties of the wrapper that common_search returned; the register may  *)
(* leave any field out of the envelope                                      *)

ReadNext ==
    \/ \E n \in ResourceNames, t \in ResourceTypeArgs : common_search(n, t)
    \/ \E n \in ResourceNames : search_frn(n)
    \/ \E r \in Replies \cup RawResponses : common_search_returns(r)
    \/ \E r \in Replies \cup RawResponses : search_ref_number_returns(r)
    \/ read_status
    \/ read_resultinfo
    \/ read_message
    \/ read_data

ReadSpec == Init /\ [][ReadNext]_vars

----------------------------------------------------------------------------
(* Vocabulary of the properties *)

\* the call has ended, by a return or by an exception
Done == outcome.kind \in {"returned", "raised"}

\* a reference-number search (search_frn, search_irn, search_prn or the private
\* method itself) has ended
SearchDone == Done /\ call.handler = "_search_ref_number"

\* a fixed-path accessor has ended
AccessorDone == Done /\ call.handler = "_get_resource_info" /\ call.op \in DOMAIN Accessors

\* the GET of the call raised a requests.RequestException
TransportFailed == Done /\ Len(sent) > 0 /\ reply.exc \in TransportErrors

\* the GET of the call was answered with a response
Answered == Done /\ Len(sent) > 0 /\ reply.exc = ""

\* the GET was answered, with a 2xx status
Answered2xx == Answered /\ 200 <= reply.status_code /\ reply.status_code <= 299

\* the GET was answered, with a status other than 2xx
AnsweredNon2xx == Answered /\ ~(200 <= reply.status_code /\ reply.status_code <= 299)

\* the GET was answered, with a client or server error status
Answered4xx5xx == Answered /\ 400 <= reply.status_code /\ reply.status_code <= 599

\* the records of the answer's Data payload; none when the body is not JSON, or
\* Data is absent or null
Payload ==
    IF reply.body.is_json /\ "Data" \in DOMAIN reply.body.obj
    THEN reply.body.obj["Data"].items
    ELSE <<>>

\* the answer carries an envelope
Parsed == reply.body.is_json

\* text contains part as a contiguous run of tokens
Contains(text, part) ==
    \E i \in 0..(Len(text) - Len(part)) : SubSeq(text, i + 1, i + Len(part)) = part

RaisedType(type) == outcome.kind = "raised" /\ outcome.exc.type = type

SearchUrl == common_search_url(call.resource_name, call.resource_type)

\* exactly one request was issued by the call, the GET of the search
OneSearchRequest ==
    Len(sent) = 1 /\ sent[1].method = "GET" /\ sent[1].url = SearchUrl

----------------------------------------------------------------------------
(* Properties *)

\* C1: a reference-number search answered 2xx with exactly one record that has
\* a "Reference Number" field returns exactly that field's value, and has
\* issued the search request and no other.
C1_UniqueRefNumber ==
    (SearchDone /\ Answered2xx /\ Parsed /\ Len(Payload) = 1
        /\ RefField \in DOMAIN Payload[1])
    => (/\ outcome = (IF Payload[1][RefField].null THEN ReturnNone
                       ELSE ReturnStr(Payload[1][RefField].str))
        /\ OneSearchRequest)

C1_Witness ==
    /\ call.op = "search_irn"
    /\ Answered2xx /\ Parsed /\ Len(Payload) = 1 /\ RefField \in DOMAIN Payload[1]
    /\ outcome.kind = "returned" /\ outcome.str = "202684"

C4_InvalidTypeNoRequest ==
    (call.handler = "_search_ref_number" /\ call.resource_type \notin {"firm", "individual", "fund"})
    => (RaisedType("ValueError") /\ sent = <<>>)

C4_Witness ==
    /\ call.op = "_search_ref_number"
    /\ call.resource_type = "Firm"
    /\ outcome.kind = "raised"

\* C5: for common_search, _search_ref_number and _get_resource_info, a resource
\* type other than firm, individual and fund is a ValueError raised before any
\* request: no request is ever sent for such a call.
C5_InvalidTypeAlwaysCallerError ==
    (call.handler \in {"common_search", "_search_ref_number", "_get_resource_info"}
        /\ call.resource_type \notin {"firm", "individual", "fund"})
    => (RaisedType("ValueError") /\ sent = <<>>)

\* C6 as stated: a reference-number search answered with a non-2xx status
\* raises the request exception carrying the reason phrase, and returns nothing.
C6_Non2xxRaises ==
    (SearchDone /\ AnsweredNon2xx)
    => (RaisedType(RequestException) /\ Contains(outcome.exc.msg, <<reply.reason>>))

\* C6 amended: a reference-number search answered with a 4xx or 5xx status
\* raises the request exception carrying the reason phrase, and returns nothing.
C6_ErrorStatusRaises ==
    (SearchDone /\ Answered4xx5xx)
    => (RaisedType(RequestException) /\ Contains(outcome.exc.msg, <<reply.reason>>))

C6_Witness ==
    /\ call.op = "search_frn"
    /\ Answered4xx5xx /\ Parsed /\ Len(Payload) = 1
    /\ outcome.kind = "raised" /\ Contains(outcome.exc.msg, <<"Not Found">>)

\* C7: a reference-number search answered 2xx with exactly one record that lacks
\* the "Reference Number" field raises the response exception, whose message
\* names the resource type, the searched name and the developer portal.
C7_MissingFieldRaisesResponseException ==
    (SearchDone /\ Answered2xx /\ Parsed /\ Len(Payload) = 1
        /\ RefField \notin DOMAIN Payload[1])
    => (/\ RaisedType(ResponseException)
        /\ Contains(outcome.exc.msg, <<call.resource_type>>)
        /\ Contains(outcome.exc.msg, call.resource_name)
        /\ Contains(outcome.exc.msg, API_CONSTANTS.DEVELOPER_PORTAL))

C7_Witness ==
    /\ call.op = "search_prn"
    /\ call.resource_name = <<"direct", " ", "line">>
    /\ Answered2xx /\ Parsed /\ Len(Payload) = 1 /\ RefField \notin DOMAIN Payload[1]
    /\ outcome.kind = "raised"

\* C8: when the GET of common_search raises a requests.RequestException, the
\* call raises the request exception wrapping it, and one GET was attempted.
C8_CommonSearchWrapsTransportFailure ==
    (Done /\ call.handler = "common_search" /\ TransportFailed)
    => (/\ RaisedType(RequestException)
        /\ outcome.exc.cause = reply.exc
        /\ OneSearchRequest)

C8_Witness ==
    /\ call.op = "common_search"
    /\ reply.exc = "Timeout"
    /\ outcome.kind = "raised"

\* C9: when the GET of a fixed-path accessor raises a requests.RequestException,
\* the accessor raises the request exception: no transport exception escapes.
C9_AccessorWrapsTransportFailure ==
    (AccessorDone /\ TransportFailed)
    => (/\ RaisedType(RequestException)
        /\ outcome.exc.cause = reply.exc
        /\ outcome.exc.type \notin TransportErrors)

C9_Witness ==
    /\ call.op = "get_firm_passport_permissions"
    /\ reply.exc = "ConnectionError"
    /\ outcome.kind = "raised"

\* C10: every client operation that issues a request, get_regulated_markets
\* included, raises the request exception when its GET fails in transport.
C10_EveryOperationWrapsTransportFailure ==
    TransportFailed => RaisedType(RequestException)


\* C11: a fixed-path accessor answered 2xx with a null, absent or empty Data
\* payload returns the wrapper of that answer, whose data is empty or null, and
\* raises nothing; of all operations only the reference-number search raises
\* on such an answer.
C11_AccessorNotFoundIsData ==
    /\ (AccessorDone /\ Answered2xx /\ Parsed /\ Len(Payload) = 0)
       => (/\ outcome = ReturnResponse(FinancialServicesRegisterApiResponse(reply))
           /\ ~truthy(data(outcome.response)))
    /\ (Answered2xx /\ Parsed /\ Len(Payload) = 0 /\ outcome.kind = "raised")
       => call.handler = "_search_ref_number"

C11_Witness ==
    /\ call.op = "get_firm"
    /\ Answered2xx /\ Parsed
    /\ "Data" \in DOMAIN reply.body.obj /\ reply.body.obj["Data"] = JsonArray(<<>>)
    /\ outcome.kind = "returned" /\ outcome.value_type = "response"


\* str.strip('/') of a modifier: leading and trailing forward slashes removed
RECURSIVE lstrip_slash(_)
lstrip_slash(s) == IF s # <<>> /\ Head(s) = "/" THEN lstrip_slash(Tail(s)) ELSE s

RECURSIVE rstrip_slash(_)
rstrip_slash(s) ==
    IF s # <<>> /\ s[Len(s)] = "/" THEN rstrip_slash(SubSeq(s, 1, Len(s) - 1)) ELSE s

strip_slash(s) == rstrip_slash(lstrip_slash(s))

StrippedModifiers(modifiers) == [i \in DOMAIN modifiers |-> strip_slash(modifiers[i])]

ResourceInfoRequested == Done /\ call.handler = "_get_resource_info" /\ Len(sent) > 0

\* C12: the URL requested by _get_resource_info is the one built from the
\* modifiers with their leading and trailing forward slashes removed, so
\* slashed and unslashed modifiers give the same URL, and removing the slashes
\* a second time changes nothing.
C12_ModifierSlashesStripped ==
    ResourceInfoRequested =>
        /\ sent[1].url = resource_info_url(call.resource_ref_number, call.resource_type,
                                           StrippedModifiers(call.modifiers))
        /\ StrippedModifiers(StrippedModifiers(call.modifiers))
               = StrippedModifiers(call.modifiers)


\* the endpoint catalogue: the path template of each operation
EndpointCatalogue ==
    [ get_firm                              |-> <<"/", "Firm", "/", "{ID}">>,
      get_firm_names                        |-> <<"/", "Firm", "/", "{ID}", "/", "Names">>,
      get_firm_addresses                    |-> <<"/", "Firm", "/", "{ID}", "/", "Address">>,
      get_firm_controlled_functions         |-> <<"/", "Firm", "/", "{ID}", "/", "CF">>,
      get_firm_individuals                  |-> <<"/", "Firm", "/", "{ID}", "/", "Individuals">>,
      get_firm_permissions                  |-> <<"/", "Firm", "/", "{ID}", "/", "Permissions">>,
      get_firm_requirements                 |-> <<"/", "Firm", "/", "{ID}", "/", "Requirements">>,
      get_firm_requirement_investment_types |->
          <<"/", "Firm", "/", "{ID}", "/", "Requirements", "/", "{Ref}", "/", "InvestmentTypes">>,
      get_firm_regulators                   |-> <<"/", "Firm", "/", "{ID}", "/", "Regulators">>,
      get_firm_passports                    |-> <<"/", "Firm", "/", "{ID}", "/", "Passports">>,
      get_firm_passport_permissions         |->
          <<"/", "Firm", "/", "{ID}", "/", "Passports", "/", "{Country}", "/", "Permission">>,
      get_firm_waivers                      |-> <<"/", "Firm", "/", "{ID}", "/", "Waivers">>,
      get_firm_exclusions                   |-> <<"/", "Firm", "/", "{ID}", "/", "Exclusions">>,
      get_firm_disciplinary_history         |->
          <<"/", "Firm", "/", "{ID}", "/", "DisciplinaryHistory">>,
      get_firm_appointed_representatives    |-> <<"/", "Firm", "/", "{ID}", "/", "AR">>,
      get_individual                        |-> <<"/", "Individuals", "/", "{ID}">>,
      get_individual_controlled_functions   |-> <<"/", "Individuals", "/", "{ID}", "/", "CF">>,
      get_individual_disciplinary_history   |->
          <<"/", "Individuals", "/", "{ID}", "/", "DisciplinaryHistory">>,
      get_fund                              |-> <<"/", "CIS", "/", "{ID}">>,
      get_fund_names                        |-> <<"/", "CIS", "/", "{ID}", "/", "Names">>,
      get_fund_subfunds                     |-> <<"/", "CIS", "/", "{ID}", "/", "Subfund">>,
      get_regulated_markets                 |-> <<"/", "CommonSearch", "?", "q", "=", "RM">> ]

\* a template with {ID} replaced by the identifier and {Ref} or {Country} by
\* the extra segment
RECURSIVE FillTemplate(_, _, _)
FillTemplate(template, id, extra) ==
    IF template = <<>> THEN <<>>
    ELSE (CASE Head(template) = "{ID}" -> id
            [] Head(template) \in {"{Ref}", "{Country}"} -> extra
            [] OTHER -> <<Head(template)>>)
         \o FillTemplate(Tail(template), id, extra)

\* https://register.fca.org.uk/services/V0.1
CatalogueBaseUrl == <<"https:", "/", "/", "register.fca.org.uk", "/", "services", "/", "V0.1">>

CatalogueOp == call.op \in DOMAIN EndpointCatalogue /\ Len(sent) > 0

C14_StaticConfiguration ==
    /\ DOMAIN API_CONSTANTS.RESOURCE_TYPES = {"firm", "fund", "individual"}
    /\ \A k \in DOMAIN API_CONSTANTS.RESOURCE_TYPES :
           /\ DOMAIN API_CONSTANTS.RESOURCE_TYPES[k] = {"type_name", "endpoint_base"}
           /\ API_CONSTANTS.RESOURCE_TYPES[k].type_name = k
    /\ API_CONSTANTS.RESOURCE_TYPES["firm"].endpoint_base = "Firm"
    /\ API_CONSTANTS.RESOURCE_TYPES["fund"].endpoint_base = "CIS"
    /\ API_CONSTANTS.RESOURCE_TYPES["individual"].endpoint_base = "Individuals"
    /\ API_CONSTANTS.BASEURL = CatalogueBaseUrl
    /\ API_CONSTANTS.API_VERSION = <<"V0.1">>

C14_Witness ==
    /\ Done
    /\ call.op = "get_fund_subfunds"
    /\ Answered2xx
    /\ API_CONSTANTS.RESOURCE_TYPES[call.resource_type].endpoint_base = "CIS"


\* the body field each property of the wrapper stands for
PropertyField ==
    [status |-> "Status", resultinfo |-> "ResultInfo", message |-> "Message", data |-> "Data"]

PropertyRead == read.kind # "none" /\ reply.body.is_json

\* C15: a property read of a wrapper built from a raw response with a JSON body
\* yields the value of the Status, ResultInfo, Message or Data field of that
\* body, unchanged (None when the body has no such field), and raises nothing.
C15_WrapperRoundTrip ==
    PropertyRead =>
        /\ read.kind = "returned"
        /\ read.value = (IF PropertyField[read.property] \in DOMAIN reply.body.obj
                         THEN reply.body.obj[PropertyField[read.property]]
                         ELSE JsonNull)

C15_Witness ==
    /\ PropertyRead
    /\ read.property = "status"
    /\ DOMAIN reply.body.obj = {"Status", "Message", "ResultInfo", "Data"}
    /\ reply.body.obj["Message"] = JsonString("FSR-API-04-01-11")
    /\ read.value = JsonString("FSR-API-04-01-00")


\* the session holds the credentials c and the three headers made from them
SessionOf(c) ==
    /\ api_session._api_username = c[1]
    /\ api_session._api_key = c[2]
    /\ api_session.headers["ACCEPT"] = "application/json"
    /\ api_session.headers["X-AUTH-EMAIL"] = c[1]
    /\ api_session.headers["X-AUTH-KEY"] = c[2]

\* C16: the session of a client constructed with a username and a key holds
\* that username, that key and the three headers made from them in every state
\* reached by any sequence of client operations, failing or succeeding.
C16_CredentialsNeverChange ==
    \A c \in Credentials :
        (api_session._api_username = c[1] /\ api_session._api_key = c[2]) => []SessionOf(c)

C16_Witness ==
    /\ SessionOf(<<"other@example.com", "key-2">>)
    /\ TransportFailed
    /\ outcome.kind = "raised"


AuthHeaders == {"ACCEPT", "X-AUTH-EMAIL", "X-AUTH-KEY"}

\* C17: the session's headers are exactly Accept, X-AUTH-EMAIL and X-AUTH-KEY,
\* and every request of every operation carries them, with the values
\* application/json, the session's username and the session's key.
C17_EveryRequestAuthenticated ==
    /\ DOMAIN api_session.headers = AuthHeaders
    /\ \A i \in DOMAIN sent :
           /\ DOMAIN sent[i].headers = AuthHeaders
           /\ sent[i].headers["ACCEPT"] = "application/json"
           /\ sent[i].headers["X-AUTH-EMAIL"] = api_session._api_username
           /\ sent[i].headers["X-AUTH-KEY"] = api_session._api_key

C17_Witness ==
    /\ Done
    /\ call.op = "get_regulated_markets"
    /\ Len(sent) = 1
    /\ sent[1].headers["X-AUTH-EMAIL"] = "user@example.com"
    /\ sent[1].headers["X-AUTH-KEY"] = "key-1"


\* the arguments of the call pass the one validation there is: the resource
\* type check of _search_ref_number and _get_resource_info
PassesValidation ==
    call.handler \in {"_search_ref_number", "_get_resource_info"}
        => call.resource_type \in {"firm", "fund", "individual"}

\* C18: an operation whose arguments pass validation has issued exactly one
\* request, a GET, when it returns or raises, whatever the answer was.
C18_ExactlyOneGet ==
    (Done /\ PassesValidation) => (Len(sent) = 1 /\ sent[1].method = "GET")

C18_Witness ==
    /\ Done /\ PassesValidation
    /\ call.op = "search_irn"
    /\ outcome.kind = "raised" /\ outcome.exc.type = ResponseException
    /\ Len(sent) = 1


\* the parts of a text between the occurrences of the token sep
RECURSIVE SplitAt(_, _, _)
SplitAt(text, sep, part) ==
    IF text = <<>> THEN <<part>>
    ELSE IF Head(text) = sep THEN <<part>> \o SplitAt(Tail(text), sep, <<>>)
    ELSE SplitAt(Tail(text), sep, Append(part, Head(text)))

\* the characters that end or divide a query parameter
QueryDelimiters == {"/", "?", "&", "=", " "}

\* the value a server decodes from a form-encoded query value
UnquotePlusToken(t) ==
    CASE t = "+"   -> " "
      [] t = "%2F" -> "/"
      [] t = "%3F" -> "?"
      [] t = "%26" -> "&"
      [] t = "%3D" -> "="
      [] t = "%2B" -> "+"
      [] OTHER     -> t

\* param is key=value, the value encoded, and decodes to the given value
IsQueryParam(param, key, value) ==
    /\ Len(param) >= 2
    /\ param[1] = key /\ param[2] = "="
    /\ LET encoded == SubSeq(param, 3, Len(param))
       IN  /\ \A i \in DOMAIN encoded : encoded[i] \notin QueryDelimiters
           /\ [i \in DOMAIN encoded |-> UnquotePlusToken(encoded[i])] = value

SearchEndpoint == CatalogueBaseUrl \o <<"/", "Search", "?">>

CommonSearchDone == Done /\ call.op = "common_search"

\* C19: common_search issues one GET to <base URL>/Search? followed by exactly
\* two query parameters, q and type, holding the URL-encoded resource name and
\* resource type; it returns the wrapper of whatever response comes back, of
\* any status and any body, and raises only when the GET itself failed.
C19_CommonSearchRequestAndResult ==
    CommonSearchDone =>
        /\ Len(sent) = 1 /\ sent[1].method = "GET"
        /\ Len(sent[1].url) > Len(SearchEndpoint)
        /\ SubSeq(sent[1].url, 1, Len(SearchEndpoint)) = SearchEndpoint
        /\ LET query == SubSeq(sent[1].url, Len(SearchEndpoint) + 1, Len(sent[1].url))
               params == SplitAt(query, "&", <<>>)
           IN  /\ Len(params) = 2
               /\ IsQueryParam(params[1], "q", call.resource_name)
               /\ IsQueryParam(params[2], "type", <<call.resource_type>>)
        /\ reply.exc = "" => outcome = ReturnResponse(FinancialServicesRegisterApiResponse(reply))
        /\ outcome.kind = "raised" => reply.exc \in TransportErrors

C19_Witness ==
    /\ CommonSearchDone
    /\ call.resource_name = <<"marks", "&", "spencer">>
    /\ sent[1].url = SearchEndpoint \o <<"q", "=", "marks", "%26", "spencer", "&", "type", "=", "fund">>
    /\ reply.status_code = 404 /\ ~reply.body.is_json
    /\ outcome.kind = "returned" /\ outcome.response.status_code = 404


PublicSearchDone == SearchDone /\ call.op \in {"search_frn", "search_irn", "search_prn"}

\* C20: search_frn, search_irn or search_prn answered 2xx with exactly one
\* record that has a "Reference Number" field returns a string, never None.
C20_UniqueRefNumberIsString ==
    (PublicSearchDone /\ Answered2xx /\ Parsed /\ Len(Payload) = 1
        /\ RefField \in DOMAIN Payload[1])
    => (outcome.kind = "returned" /\ outcome.value_type = "str")


\* C21: when the GET of a reference-number search fails in transport, the
\* caller gets the request exception that common_search raised for it, with the
\* transport exception as its cause: not wrapped again, not a response
\* exception; and the one request of the search is the only one issued.
C21_SearchPropagatesTransportFailure ==
    (SearchDone /\ TransportFailed) =>
        /\ outcome.kind = "raised"
        /\ outcome.exc.type = RequestException
        /\ outcome.exc.cause = reply.exc
        /\ outcome.exc.msg = <<reply.exc>>
        /\ OneSearchRequest

C21_Witness ==
    /\ SearchDone /\ TransportFailed
    /\ call.op = "search_prn"
    /\ reply.exc = "Timeout"
    /\ outcome.exc.cause = "Timeout"


\* what a caller tells outcomes apart by: the value returned, or the kind of
\* exception raised
Observable(out) ==
    [ kind |-> out.kind, value_type |-> out.value_type, str |-> out.str, list |-> out.list,
      exc_type |-> out.exc.type ]

\* the search has ended on a response (the GET did not fail)
SearchAnswered == SearchDone /\ Answered

\* C22: the value returned or the kind of exception raised by a
\* reference-number search that got a response is the one any other run with
\* the same response gets, whatever name and (valid) resource type that run
\* searched for.
C22_OutcomeIndependentOfName ==
    SearchAnswered =>
        \A n \in ResourceNames, t \in {"firm", "fund", "individual"} :
            Observable(search_ref_number_result(n, t, reply)) = Observable(outcome)

C22_Witness ==
    /\ SearchAnswered
    /\ RaisedType(ResponseException)
    /\ \E n \in ResourceNames :
           /\ n # call.resource_name
           /\ search_ref_number_result(n, call.resource_type, reply).exc.msg # outcome.exc.msg
           /\ search_ref_number_result(n, call.resource_type, reply).exc.type = outcome.exc.type


\* a property of the wrapper that the call returned has been read
WrapperRead == read.kind # "none"

\* C23: reading data, status, message or resultinfo of a wrapper whose body is
\* not JSON raises the parse error of json(); and a reference-number search
\* answered 2xx with such a body ends in that parse error: not in the request
\* or response exception, not in a returned value.
C23_InvalidJsonPropagates ==
    /\ (WrapperRead /\ ~outcome.response.body.is_json)
           => (read.kind = "raised" /\ read.exc = "JSONDecodeError")
    /\ (SearchDone /\ Answered2xx /\ ~reply.body.is_json) => RaisedType("JSONDecodeError")

C23_Witness ==
    /\ call.op = "common_search"
    /\ Answered2xx /\ ~reply.body.is_json
    /\ read.property = "message"
    /\ read.kind = "raised"


\* the wrapper's attributes that are those of the raw response
PassThrough(res) == [status_code |-> res.status_code, reason |-> res.reason, ok |-> ok(res)]

\* C24: building a wrapper from a raw response and reading its properties,
\* any number of times, never changes the raw response; and the wrapper's
\* status code, reason and success flag are those of the raw response.
C24_WrapperLeavesResponseUnchanged ==
    /\ [][reply' = reply]_vars
    /\ [](Wrapped => PassThrough(outcome.response) = PassThrough(reply))

C24_Witness ==
    /\ Wrapped
    /\ read.property = "data" /\ read.kind = "returned"
    /\ reply.status_code = 404
    /\ outcome.response.reason = "Not Found"
    /\ ~ok(outcome.response)


\* what a call that has ended ends with, given only its own arguments and
\* what the GET produced
OutcomeOf(c, r) ==
    CASE c.handler = "common_search" -> common_search_result(r)
      [] c.handler = "_search_ref_number" ->
             search_ref_number_result(c.resource_name, c.resource_type, r)
      [] c.handler = "_get_resource_info" -> get_resource_info_result(r)
      [] c.handler = "get_regulated_markets" -> get_regulated_markets_result(r)
      [] OTHER -> NotCalled

\* C25: a step that ends an operation in an exception changes neither the
\* session nor the configuration; the operation that follows a failed one
\* sends its request with the headers the failed one sent; and the outcome of
\* an operation is the one its own arguments and its own response give,
\* whatever was called before.
C25_FailureLeavesClientUnchanged ==
    /\ [][outcome'.kind = "raised"
              => (api_session' = api_session /\ API_CONSTANTS' = API_CONSTANTS)]_vars
    /\ [][(outcome.kind = "raised" /\ Len(sent') > 0)
              => (/\ sent'[1].headers = api_session.headers
                  /\ Len(sent) > 0 => sent'[1].headers = sent[1].headers)]_vars
    /\ []((Done /\ Len(sent) > 0) => outcome = OutcomeOf(call, reply))

C25_Witness ==
    /\ RaisedType("ValueError")
    /\ call.op = "_get_resource_info"
    /\ sent = <<>>
    /\ SessionOf(<<"user@example.com", "key-1">>)


\* the search got a response whose body parses: its payload is null (or
\* absent) or a list of records
SearchParsed == SearchDone /\ Answered /\ Parsed

\* the value of the single record's "Reference Number" was returned
ReturnedRefNumber ==
    /\ Len(Payload) = 1 /\ RefField \in DOMAIN Payload[1]
    /\ outcome = (IF Payload[1][RefField].null THEN ReturnNone
                  ELSE ReturnStr(Payload[1][RefField].str))

\* the list of several records was returned
ReturnedRecords ==
    outcome.kind = "returned" /\ outcome.value_type = "list" /\ Len(outcome.list) > 1

\* C26: a reference-number search that got a response with a null or list
\* payload, of any status, ends in one of four ways: the single record's
\* reference number returned, the list of several records returned, the request
\* exception raised or the response exception raised; it never runs off the
\* end of the branches.
C26_FourOutcomes ==
    SearchParsed =>
        \/ ReturnedRefNumber
        \/ ReturnedRecords
        \/ RaisedType(RequestException)
        \/ RaisedType(ResponseException)

C26_Witness ==
    /\ SearchParsed
    /\ reply.status_code = 300
    /\ "Data" \in DOMAIN reply.body.obj /\ reply.body.obj["Data"] = JsonArray(<<>>)
    /\ RaisedType(RequestException)


\* the request exception that carries the reason phrase of the response
ReasonRaised ==
    /\ RaisedType(RequestException)
    /\ Contains(outcome.exc.msg, <<"API search request failed for an unknown reason: ",
                                   reply.reason>>)

\* the request exception "No data found"
NoDataRaised ==
    /\ RaisedType(RequestException)
    /\ outcome.exc.msg =
           <<"No data found in the API response. Please check the search parameters and try again.">>

\* C27 as stated: for every status other than 2xx the search raises the
\* reason-phrase request exception whatever the payload or the body, and "No
\* data found" is raised for 2xx responses only.
C27_Non2xxTakesPrecedence ==
    /\ (SearchDone /\ AnsweredNon2xx) => ReasonRaised
    /\ (SearchDone /\ Answered /\ NoDataRaised) => Answered2xx

\* C27, amended: for every 4xx or 5xx status the search raises the
\* reason-phrase request exception, whether the payload is empty, non-empty
\* or absent and whether or not the body parses; "No data found" is raised
\* only for responses of other statuses.
C27_ErrorStatusTakesPrecedence ==
    /\ (SearchDone /\ Answered4xx5xx) => ReasonRaised
    /\ (SearchDone /\ Answered /\ NoDataRaised) => ~Answered4xx5xx

C27_Witness ==
    /\ SearchDone /\ Answered4xx5xx
    /\ ~reply.body.is_json
    /\ ReasonRaised
    /\ reply.reason = "Not Found"


\* a fixed-path accessor or get_regulated_markets has ended after its GET
FixedPathDone ==
    /\ Done /\ Len(sent) > 0
    /\ (call.op \in DOMAIN Accessors \/ call.op = "get_regulated_markets")

\* C28: a fixed-path accessor or get_regulated_markets that got a response, of
\* any status and with any body, returns the wrapper of that response; it
\* raises only when the GET failed in transport.
C28_FixedPathReturnsAnyStatus ==
    FixedPathDone =>
        /\ reply.exc = "" => outcome = ReturnResponse(FinancialServicesRegisterApiResponse(reply))
        /\ outcome.kind = "raised" => reply.exc \in TransportErrors

C28_Witness ==
    /\ FixedPathDone
    /\ call.op = "get_regulated_markets"
    /\ reply.status_code = 404 /\ ~reply.body.is_json
    /\ outcome.kind = "returned" /\ outcome.response.status_code = 404


\* the public operations that go through a resource type check
PublicCheckedOps == {"search_frn", "search_irn", "search_prn"} \cup DOMAIN Accessors

\* C29: search_frn, search_irn, search_prn and the get_* accessors never end
\* in the ValueError of the resource type check, whatever their arguments: the
\* type each passes on is one of the configuration, the check passes and the
\* request is issued.
C29_PublicOpsNeverValueError ==
    (Done /\ call.op \in PublicCheckedOps) =>
        /\ ~RaisedType("ValueError")
        /\ call.resource_type \in DOMAIN API_CONSTANTS.RESOURCE_TYPES
        /\ Len(sent) = 1

C29_Witness ==
    /\ Done
    /\ call.op = "get_individual_controlled_functions"
    /\ call.resource_type = "individual"
    /\ Len(sent) = 1
    /\ outcome.kind = "returned"


\* the response of the call with an empty list put in for its Data field
WithEmptyData(r) ==
    [r EXCEPT !.body.obj = ("Data" :> JsonArray(<<>>)) @@ r.body.obj]

DataAbsent == Parsed /\ "Data" \notin DOMAIN reply.body.obj

====
